---- MODULE Spec2Model ----
(***************************************************************************)
(* Model of the Codeforces synchronisation pipeline of task_tg:            *)
(*   parser.py     DatabaseManager, CodeforcesParser                       *)
(*   servicies.py  smart_repars_check, check_changes                       *)
(*   models.py     the tables problems, tags, difficulties, problem_tags   *)
(* The relational store is modelled as four tables.  A session works on a  *)
(* transaction-local copy of the store; commit publishes the copy and      *)
(* rollback discards it.                                                   *)
(***************************************************************************)
EXTENDS Integers, Sequences, FiniteSets, TLC

(***************************************************************************)
(* Bounds of the model.                                                    *)
(***************************************************************************)
\* longest catalog the upstream API answers with
MaxCatalog == 2
\* most rows of the problems table outside of a run
MaxRows == 2

(***************************************************************************)
(* Values.                                                                 *)
(***************************************************************************)
\* Python's None where an integer is expected (contest_id, rating, ids)
NoneInt == -1
\* Python's None where a string is expected (condition text)
NoneStr == "<None>"

\* p.get(key, default) on a dict modelled as a record with a key set
DictGet(d, key, default) == IF key \in d.keys THEN d[key] ELSE default

\* str(n) for the counts that occur
Str(n) == CASE n = 0 -> "0" [] n = 1 -> "1" [] n = 2 -> "2" [] n = 3 -> "3"
            [] n = 4 -> "4" [] OTHER -> "many"

AllKeys == {"tags", "name", "contest_id", "index", "type", "rating"}

\* problem objects of the API answer (result.problems); keys may be absent
RawProblems ==
    { [keys |-> {"tags", "name", "contestId", "index", "type", "rating"},
       tags |-> <<"dp">>, name |-> "X", contestId |-> 1, index |-> "A",
       type |-> "PROGRAMMING", rating |-> 1500],
      [keys |-> {"tags", "name", "contestId", "index"},
       tags |-> <<"dp", "dp">>, name |-> "Y", contestId |-> 2, index |-> "A",
       type |-> "", rating |-> NoneInt],
      [keys |-> {"tags", "name", "contestId", "index", "type"},
       tags |-> <<"", "math", "dp">>, name |-> "X2", contestId |-> 1, index |-> "B",
       type |-> "PROGRAMMING", rating |-> NoneInt],
      [keys |-> {"index", "rating"},
       tags |-> <<>>, name |-> "", contestId |-> NoneInt, index |-> "A",
       type |-> "", rating |-> 1500] }

\* the dict fetch_problems_list builds for one problem of the answer
ToProblemData(p) ==
    [keys       |-> AllKeys,
     tags       |-> DictGet(p, "tags", <<>>),
     name       |-> DictGet(p, "name", "Bez nazvaniya"),
     contest_id |-> DictGet(p, "contestId", NoneInt),
     index      |-> DictGet(p, "index", ""),
     type       |-> DictGet(p, "type", "PROGRAMMING"),
     rating     |-> DictGet(p, "rating", NoneInt)]

\* a dict without the natural key, as a caller of process_problems may pass
NoKeyData ==
    [keys |-> {"tags", "name", "type"}, tags |-> <<>>, name |-> "Z",
     contest_id |-> NoneInt, index |-> "", type |-> "PROGRAMMING",
     rating |-> NoneInt]

RECURSIVE SeqsUpTo(_, _)
SeqsUpTo(S, n) ==
    IF n = 0 THEN {<<>>}
    ELSE LET shorter == SeqsUpTo(S, n - 1)
         IN  shorter \cup {Append(s, x) : s \in {t \in shorter : Len(t) = n - 1}, x \in S}

\* the answers result.problems can take
Catalogs == SeqsUpTo(RawProblems, MaxCatalog)

\* condition texts a caller passes to save_problem
Texts == {"t1", "t2"}

(***************************************************************************)
(* The store: models.py.                                                   *)
(***************************************************************************)
\* Base.metadata.create_all on a dropped schema: all tables exist, empty
EmptyDb == [problems |-> <<>>, tags |-> <<>>, difficulties |-> <<>>,
            problem_tags |-> {}, parsing_states |-> <<>>]

\* rows get the next id of their table
NextId(table) == Len(table) + 1

\* session.query(Difficulty).filter_by(value=rating).first(); NoneInt = None
QueryDifficulty(d, rating) ==
    IF \E k \in 1..Len(d.difficulties) : d.difficulties[k].value = rating
    THEN (CHOOSE k \in 1..Len(d.difficulties) :
             /\ d.difficulties[k].value = rating
             /\ \A j \in 1..(k - 1) : d.difficulties[j].value # rating)
    ELSE NoneInt

\* QueryTag as a lookup that misses the rows the session flushed or committed
QueryTagMissed(d, tag_name) == NoneInt

\* session.query(Tag).filter_by(name=tag_name).first(); NoneInt = None
QueryTag(d, tag_name) ==
    IF \E k \in 1..Len(d.tags) : d.tags[k].name = tag_name
    THEN (CHOOSE k \in 1..Len(d.tags) :
             /\ d.tags[k].name = tag_name
             /\ \A j \in 1..(k - 1) : d.tags[j].name # tag_name)
    ELSE NoneInt

\* Difficulty.value is unique=True: the INSERT of a present value is rejected
DifficultyUnique(d, rating) ==
    \A k \in 1..Len(d.difficulties) : d.difficulties[k].value # rating

\* Tag.name is unique=True: the INSERT of a present name is rejected
TagUnique(d, tag_name) ==
    \A k \in 1..Len(d.tags) : d.tags[k].name # tag_name

\* the columns of Problem declared nullable=False
ProblemNotNull(row) ==
    /\ row.contest_id # NoneInt
    /\ row.name # NoneStr
    /\ row.index # NoneStr
    /\ row.problem_type # NoneStr
    /\ row.condition_text # NoneStr

\* what another session commits between a lookup of this session and the
\* INSERT that follows it: nothing, a Tag of a name, a Difficulty of a value
NoRace == [kind |-> "none", name |-> "", value |-> NoneInt]
Races == {NoRace,
          [kind |-> "tag", name |-> "dp", value |-> NoneInt],
          [kind |-> "difficulty", name |-> "", value |-> 1500]}

\* the committed store once the other session has committed its row
OtherCommit(d, race) ==
    CASE race.kind = "tag" /\ TagUnique(d, race.name) ->
            [d EXCEPT !.tags = Append(@, [id |-> NextId(d.tags), name |-> race.name])]
      [] race.kind = "difficulty" /\ DifficultyUnique(d, race.value) ->
            [d EXCEPT !.difficulties =
                Append(@, [id |-> NextId(d.difficulties), value |-> race.value])]
      [] OTHER -> d

\* RollbackStore with the flushed rows left in the store
RollbackKeepsFlushed(committed, flushed) == flushed

\* session.rollback(), lines 216 and 223: the rows the session flushed are
\* gone, the store is the committed one
RollbackStore(committed, flushed) == committed

\* Rollback left out of the except clauses: the session stays as it was
RollbackSkipped(sess) == sess

\* session.rollback(): the session can be used again
Rollback(sess) == "active"

(***************************************************************************)
(* CodeforcesParser.save_problem.                                          *)
(***************************************************************************)
\* lines 179-187: the Difficulty of the rating, looked up or inserted
DifficultyStep(w, rating, race) ==
    IF rating = NoneInt
    THEN [db |-> w, difficulty |-> NoneInt, err |-> "none", dup_insert |-> FALSE]
    ELSE LET difficulty == QueryDifficulty(w, rating)
         IN  IF difficulty # NoneInt
             THEN [db |-> w, difficulty |-> difficulty, err |-> "none",
                   dup_insert |-> FALSE]
             ELSE IF ~DifficultyUnique(OtherCommit(w, race), rating)
             THEN [db |-> w, difficulty |-> NoneInt, err |-> "unique",
                   dup_insert |-> ~DifficultyUnique(w, rating)]
             ELSE [db |-> [w EXCEPT !.difficulties =
                              Append(@, [id |-> NextId(w.difficulties), value |-> rating])],
                   difficulty |-> NextId(w.difficulties), err |-> "none",
                   dup_insert |-> FALSE]

\* lines 189-199: the Tag of every non-empty name, looked up or inserted;
\* tags is the list the loop builds, one entry per non-empty name
RECURSIVE TagLoop(_, _, _, _, _)
TagLoop(w, names, k, tags, race) ==
    IF k > Len(names)
    THEN [db |-> w, tags |-> tags, err |-> "none", dup_insert |-> FALSE]
    ELSE LET tag_name == names[k]
             tag == QueryTag(w, tag_name)
         IN  IF tag_name = "" THEN TagLoop(w, names, k + 1, tags, race)
             ELSE IF tag # NoneInt
             THEN TagLoop(w, names, k + 1, Append(tags, tag), race)
             ELSE IF ~TagUnique(OtherCommit(w, race), tag_name)
             THEN [db |-> w, tags |-> tags, err |-> "unique",
                   dup_insert |-> ~TagUnique(w, tag_name)]
             ELSE TagLoop([w EXCEPT !.tags =
                              Append(@, [id |-> NextId(w.tags), name |-> tag_name])],
                          names, k + 1, Append(tags, NextId(w.tags)), race)

\* the list holds one Tag object more than once
HasDuplicates(tags) ==
    \E a, b \in 1..Len(tags) : a # b /\ tags[a] = tags[b]

\* lines 201-212: the Problem row and its problem_tags rows, flushed by commit
\* in this order: the row (NOT NULL columns), then one link per list entry
\* (primary key (problem_id, tag_id))
ProblemStep(w, problem_data, condition_text, difficulty, tags) ==
    LET row == [id             |-> NextId(w.problems),
                name           |-> problem_data.name,
                contest_id     |-> problem_data.contest_id,
                index          |-> problem_data.index,
                problem_type   |-> problem_data.type,
                rating_id      |-> difficulty,
                condition_text |-> condition_text,
                total_solved   |-> NoneInt]
    IN  IF ~({"name", "contest_id", "index", "type"} \subseteq problem_data.keys)
        THEN [db |-> w, err |-> "exception"]
        ELSE IF ~ProblemNotNull(row) THEN [db |-> w, err |-> "integrity"]
        ELSE IF HasDuplicates(tags) THEN [db |-> w, err |-> "unique"]
        ELSE [db |-> [w EXCEPT !.problems = Append(@, row),
                               !.problem_tags = @ \cup
                                  {<<row.id, tags[k]>> : k \in 1..Len(tags)}],
              err |-> "none"]

\* the try block, lines 178-213, on the session's copy w of the store; db is
\* the store with what the session has flushed so far;
\* fault: the connection fails under the call (an error that is no
\* IntegrityError); a session left inactive raises on its first statement;
\* race: what another session commits between a lookup and its INSERT
SaveTransaction(problem_data, condition_text, sess, w, fault, race) ==
    LET d1 == DifficultyStep(w, DictGet(problem_data, "rating", NoneInt), race)
        d2 == TagLoop(d1.db, DictGet(problem_data, "tags", <<>>), 1, <<>>, race)
        d3 == ProblemStep(d2.db, problem_data, condition_text, d1.difficulty, d2.tags)
    IN  IF fault \/ sess # "active"
        THEN [db |-> w, err |-> "exception", dup_insert |-> FALSE]
        ELSE IF d1.err # "none"
        THEN [db |-> d1.db, err |-> d1.err, dup_insert |-> d1.dup_insert]
        ELSE IF d2.err # "none"
        THEN [db |-> d2.db, err |-> d2.err, dup_insert |-> d2.dup_insert]
        ELSE [db |-> d3.db, err |-> d3.err, dup_insert |-> FALSE]

\* the state of the session when the except clause is entered
Raised(sess, err) == IF err = "exception" THEN sess ELSE "inactive"

\* save_problem: the committed store, the session and the returned value
save_problem(problem_data, condition_text, sess, d, fault, race) ==
    LET t == SaveTransaction(problem_data, condition_text, sess, d, fault, race)
    IN  CASE t.err = "none" ->
               [db |-> OtherCommit(t.db, race), sess |-> "active", ret |-> TRUE,
                err |-> t.err, dup_insert |-> t.dup_insert]
          [] t.err = "unique" ->
               [db |-> RollbackStore(OtherCommit(d, race), OtherCommit(t.db, race)),
                sess |-> Rollback(Raised(sess, t.err)), ret |-> TRUE,
                err |-> t.err, dup_insert |-> t.dup_insert]
          [] OTHER ->
               [db |-> RollbackStore(OtherCommit(d, race), OtherCommit(t.db, race)),
                sess |-> Rollback(Raised(sess, t.err)), ret |-> FALSE,
                err |-> t.err, dup_insert |-> t.dup_insert]

(***************************************************************************)
(* CodeforcesParser.parse_problem_condition.                               *)
(***************************************************************************)
\* range(3): the attempts of one call
MaxAttempts == 3

\* what one scraper.get can end in
Responses == {"request_error", "http_error", "not_found", "no_statement",
              "empty_text", "text", "other_error"}

\* get_text of the statement of a page that has one
StatementText == "t1"

\* ParseAttempt re-raising the request error of the last attempt
ParseAttemptRaising(attempt, resp) ==
    CASE resp \in {"request_error", "http_error"} ->
            IF attempt = 2 THEN [kind |-> "raise", value |-> NoneStr]
            ELSE [kind |-> "retry", value |-> NoneStr]
      [] resp \in {"not_found", "no_statement"} ->
            [kind |-> "return", value |-> NoneStr]
      [] resp = "empty_text" -> [kind |-> "return", value |-> ""]
      [] resp = "text" -> [kind |-> "return", value |-> StatementText]
      [] OTHER -> [kind |-> "raise", value |-> NoneStr]

\* ParseAttempt with the last attempt told by attempt == 3: one pass more
ParseAttemptOneMore(attempt, resp) ==
    CASE resp \in {"request_error", "http_error"} ->
            IF attempt = 3 THEN [kind |-> "return", value |-> NoneStr]
            ELSE [kind |-> "retry", value |-> NoneStr]
      [] resp \in {"not_found", "no_statement"} ->
            [kind |-> "return", value |-> NoneStr]
      [] resp = "empty_text" -> [kind |-> "return", value |-> ""]
      [] resp = "text" -> [kind |-> "return", value |-> StatementText]
      [] OTHER -> [kind |-> "raise", value |-> NoneStr]

\* ParseAttempt with the 404 left to raise_for_status: an HTTPError, retried
ParseAttemptRetries404(attempt, resp) ==
    CASE resp \in {"request_error", "http_error", "not_found"} ->
            IF attempt = 2 THEN [kind |-> "return", value |-> NoneStr]
            ELSE [kind |-> "retry", value |-> NoneStr]
      [] resp = "no_statement" -> [kind |-> "return", value |-> NoneStr]
      [] resp = "empty_text" -> [kind |-> "return", value |-> ""]
      [] resp = "text" -> [kind |-> "return", value |-> StatementText]
      [] OTHER -> [kind |-> "raise", value |-> NoneStr]

\* one pass of the loop body, lines 134-163, in attempt number attempt (from 0):
\* kind "retry" is the continue, "return" carries the returned value
\* (NoneStr for None) and "raise" is an exception that is no RequestException
ParseAttempt(attempt, resp) ==
    CASE resp \in {"request_error", "http_error"} ->
            IF attempt = 2 THEN [kind |-> "return", value |-> NoneStr]
            ELSE [kind |-> "retry", value |-> NoneStr]
      [] resp \in {"not_found", "no_statement"} ->
            [kind |-> "return", value |-> NoneStr]
      [] resp = "empty_text" -> [kind |-> "return", value |-> ""]
      [] resp = "text" -> [kind |-> "return", value |-> StatementText]
      [] OTHER -> [kind |-> "raise", value |-> NoneStr]

\* NoText taking None alone for a missing text
NoTextNoneOnly(value) == value = NoneStr

\* NoText that takes every value for a text
NoTextNever(value) == FALSE

\* process_problems, line 255: "if not condition_text"
NoText(value) == value \in {NoneStr, ""}

(***************************************************************************)
(* servicies.py.                                                           *)
(***************************************************************************)
\* what the API request of servicies.py can end in
ApiAnswers == {"request_error", "bad_code", "bad_status", "ok"}

\* ApiOk without the check of the status field
ApiOkAnyStatus(answer) == answer \in {"ok", "bad_status"}

\* smart_repars_check, lines 31-46: the request went through, the code is 200
\* and the status field is "OK"
ApiOk(answer) == answer = "ok"

\* the row smart_repars_check stores, lines 53-60
CountRow(d, total_problems) ==
    [id |-> NextId(d.problems), name |-> "Total Problems Count", contest_id |-> 0,
     index |-> "Z", problem_type |-> "COUNT", rating_id |-> NoneInt,
     condition_text |-> Str(total_problems), total_solved |-> total_problems]

\* db.query(Problem).order_by(Problem.id.desc()).first().total_solved;
\* NoneInt when there is no row or the column is NULL
LastTotalSolved(d) ==
    IF Len(d.problems) = 0 THEN NoneInt
    ELSE d.problems[Len(d.problems)].total_solved

\* ChangesVerdict with the comparison turned round
ChangesVerdictEqual(d, current_count) ==
    IF LastTotalSolved(d) = NoneInt THEN TRUE
    ELSE LastTotalSolved(d) = current_count

\* the value check_changes returns once the API answered OK, lines 111-123
ChangesVerdict(d, current_count) ==
    IF LastTotalSolved(d) = NoneInt THEN TRUE
    ELSE LastTotalSolved(d) # current_count

(***************************************************************************)
(* State.                                                                  *)
(***************************************************************************)
VARIABLES
    db,             \* the committed store
    session,        \* the session the caller of save_problem passes to it
    pc,             \* where the running call stands
    entry,          \* the call that runs: run, process_problems, ...
    problems_data,  \* the list process_problems iterates
    i,              \* enumerate(problems_data, 1)
    attempt,        \* the attempt of parse_problem_condition
    condition_text, \* the text parse_problem_condition returned
    stats,          \* the counters of process_problems
    proc_session,   \* the session process_problems opened
    result,         \* how the call ended, as its caller sees it
    log,            \* per item of this process_problems call: what the upstream
                    \* and the store answered, and what became of the item
    last_parse,     \* the parse_problem_condition call of the item: its last
                    \* response, and whether it has returned
    last_save,      \* the last save_problem call
    start_db,       \* the store when run, reset_database or exact_search was called
    no_change,      \* check_changes would have answered False when run began
    replay,         \* the first of two runs in a row against the same upstream
    calls,          \* what run has called so far: resets, catalog fetches,
                    \* process_problems calls
    last_api,       \* the last answer of the catalog API and the rows before it
    run_end,        \* what the caller of run or of the scheduled task got
    last_search,    \* the last exact_search call: its criteria and what it found
    progress,       \* the items after which process_problems logged its progress
    opened          \* the sessions this process_problems call has opened

vars == <<db, session, pc, entry, problems_data, i, attempt, condition_text, stats,
          proc_session, result, log, last_parse, last_save, start_db, no_change,
          replay, calls, last_api, run_end, last_search, progress, opened>>

ZeroStats == [processed |-> 0, errors |-> 0, skipped |-> 0]
NoResult == [kind |-> "none", stats |-> ZeroStats, count |-> NoneInt, changed |-> FALSE]
NoParse == [called |-> FALSE, resp |-> "none", attempts |-> 0, value |-> NoneStr]
NoSave == [called |-> FALSE, problem_data |-> NoKeyData, condition_text |-> NoneStr,
           fault |-> FALSE, ret |-> FALSE, err |-> "none", dup_insert |-> FALSE,
           rows_before |-> <<>>, after_failure |-> FALSE, race |-> NoRace,
           store_before |-> EmptyDb]
NoReplay == [on |-> FALSE, problems_data |-> <<>>, log |-> <<>>, processed |-> 0,
             rows |-> 0]
NoCalls == [reset |-> 0, fetch |-> 0, process |-> 0]
NoApi == [answer |-> "none", count |-> NoneInt, fault |-> FALSE, rows_before |-> <<>>]
NoRunEnd == [returned |-> "pending", error |-> "none"]
NoSearch == [called |-> FALSE, search_query |-> NoneStr, tag |-> NoneStr,
             rating |-> NoneInt, found |-> {}]

\* the dicts fetch_problems_list can return items of
FetchedData == {ToProblemData(p) : p \in RawProblems}

\* the dicts callers pass to save_problem and process_problems
CallerData == FetchedData \cup {NoKeyData}

Init ==
    /\ db = EmptyDb
    /\ session = "active"
    /\ pc = "idle"
    /\ entry = "none"
    /\ problems_data = <<>>
    /\ i = 0
    /\ attempt = 0
    /\ condition_text = NoneStr
    /\ stats = ZeroStats
    /\ proc_session = "closed"
    /\ result = NoResult
    /\ log = <<>>
    /\ last_parse = NoParse
    /\ last_save = NoSave
    /\ start_db = EmptyDb
    /\ no_change = FALSE
    /\ replay = NoReplay
    /\ calls = NoCalls
    /\ last_api = NoApi
    /\ run_end = NoRunEnd
    /\ last_search = NoSearch
    /\ progress = <<>>
    /\ opened = 0

CallVars == <<problems_data, i, attempt, condition_text, stats, proc_session>>
GhostVars == <<log, last_parse, last_save, start_db, no_change, replay>>
TraceVars == <<calls, last_api, run_end>>
AuxVars == <<last_search, progress, opened>>

(***************************************************************************)
(* Calls a test or a script makes on its own.                              *)
(***************************************************************************)
\* the record of one save_problem call
SaveRecord(problem_data, text, fault, r, d, failed_before, race) ==
    [called |-> TRUE, problem_data |-> problem_data, condition_text |-> text,
     fault |-> fault, ret |-> r.ret, err |-> r.err, dup_insert |-> r.dup_insert,
     rows_before |-> d.problems, after_failure |-> failed_before, race |-> race,
     store_before |-> d]

\* the other session commits a row this call looks up, finds missing and
\* goes on to insert
RaceHits(problem_data, d, race) ==
    \/ /\ race.kind = "tag"
       /\ \E k \in 1..Len(DictGet(problem_data, "tags", <<>>)) :
             problem_data.tags[k] = race.name
       /\ QueryTag(d, race.name) = NoneInt
    \/ /\ race.kind = "difficulty"
       /\ DictGet(problem_data, "rating", NoneInt) = race.value
       /\ QueryDifficulty(d, race.value) = NoneInt

\* save_problem(problem_data, condition_text, session) called directly, with
\* or without another session at work on the same store
SaveCall(problem_data, text, fault, race) ==
    /\ pc = "idle"
    /\ Len(db.problems) < MaxRows
    /\ race # NoRace => /\ ~fault /\ session = "active"
                        /\ RaceHits(problem_data, db, race)
    /\ LET r == save_problem(problem_data, text, session, db, fault, race)
       IN  /\ db' = r.db
           /\ session' = r.sess
           /\ last_save' = SaveRecord(problem_data, text, fault, r, db,
                                      last_save.called /\ ~last_save.ret, race)
           /\ result' = [NoResult EXCEPT !.kind = "bool", !.changed = r.ret]
    /\ pc' = "returned" /\ entry' = "save_problem"
    /\ UNCHANGED CallVars /\ UNCHANGED TraceVars
    /\ UNCHANGED <<log, last_parse, start_db, no_change, replay>>
    /\ UNCHANGED AuxVars

\* reset_database with create_all alone: existing tables keep their rows
ResetKeepsRows(d) == d

\* reset_database with the metadata of Problem alone: the other tables keep
\* their rows
ResetProblemsOnly(d) == [d EXCEPT !.problems = <<>>, !.problem_tags = {}]

\* DatabaseManager.reset_database: drop_all, then create_all
reset_database(d) == EmptyDb

\* reset_database() called directly
ResetCall ==
    /\ pc = "idle"
    /\ db # EmptyDb
    /\ start_db' = db
    /\ db' = reset_database(db)
    /\ result' = [NoResult EXCEPT !.kind = "None"]
    /\ pc' = "returned" /\ entry' = "reset_database"
    /\ UNCHANGED <<session, log, last_parse, last_save, no_change, replay>>
    /\ UNCHANGED CallVars /\ UNCHANGED TraceVars
    /\ UNCHANGED AuxVars

\* the answer of the catalog API as the ghost last_api keeps it
ApiRecord(answer, catalog, fault) ==
    [answer |-> answer, count |-> Len(catalog), fault |-> fault,
     rows_before |-> db.problems]

\* smart_repars_check(): answer is the API's, catalog its result.problems
\* (none but with the answer "ok"), fault a failure of the commit
smart_repars_check(answer, catalog, fault) ==
    /\ pc = "idle"
    /\ Len(db.problems) < MaxRows
    /\ answer # "ok" => catalog = <<>>
    /\ IF ApiOk(answer) /\ ~fault
       THEN /\ db' = [db EXCEPT !.problems = Append(@, CountRow(db, Len(catalog)))]
            /\ result' = [NoResult EXCEPT !.kind = "int", !.count = Len(catalog)]
       ELSE /\ db' = db
            /\ result' = [NoResult EXCEPT !.kind = "None"]
    /\ last_api' = ApiRecord(answer, catalog, fault)
    /\ pc' = "returned" /\ entry' = "smart_repars_check"
    /\ UNCHANGED <<session, calls, run_end>>
    /\ UNCHANGED CallVars /\ UNCHANGED GhostVars /\ UNCHANGED AuxVars

\* check_changes(): answer is the API's, catalog its result.problems (none but
\* with the answer "ok"), fault a failure of the query
check_changes(answer, catalog, fault) ==
    /\ pc = "idle"
    /\ answer # "ok" => catalog = <<>>
    /\ IF answer = "ok" /\ ~fault
       THEN result' = [NoResult EXCEPT !.kind = "bool",
                                       !.changed = ChangesVerdict(db, Len(catalog))]
       ELSE result' = [NoResult EXCEPT !.kind = "None"]
    /\ last_api' = ApiRecord(answer, catalog, fault)
    /\ pc' = "returned" /\ entry' = "check_changes"
    /\ UNCHANGED <<db, session, calls, run_end>>
    /\ UNCHANGED CallVars /\ UNCHANGED GhostVars /\ UNCHANGED AuxVars

\* the truth value of a criterion: None and the empty string are false
GivenStr(x) == x \notin {NoneStr, ""}

\* the truth value of a criterion: None and 0 are false
GivenInt(x) == x \notin {NoneInt, 0}

\* the criteria callers pass to exact_search
SearchNames == {NoneStr, "X"}
SearchTags == {NoneStr, "", "dp"}
SearchRatings == {NoneInt, 0, 1500}

\* Problem row r of d is joined to the Tag of name tag
HasTag(d, r, tag) ==
    \E t \in 1..Len(d.tags) :
        d.tags[t].name = tag /\ <<d.problems[r].id, d.tags[t].id>> \in d.problem_tags

\* Problem row r of d is joined to the Difficulty of value rating
HasRating(d, r, rating) ==
    \E t \in 1..Len(d.difficulties) :
        d.difficulties[t].value = rating /\ d.problems[r].rating_id = d.difficulties[t].id

\* Matches with the filters joined by "or"
MatchesAny(d, search_query, tag, rating) ==
    {d.problems[r].id : r \in {q \in 1..Len(d.problems) :
        \/ GivenStr(search_query) /\ d.problems[q].name = search_query
        \/ GivenStr(tag) /\ HasTag(d, q, tag)
        \/ GivenInt(rating) /\ HasRating(d, q, rating)}}

\* exact_search, lines 166-177: the ids of the rows query.all() returns, one
\* filter per criterion that is given
Matches(d, search_query, tag, rating) ==
    {d.problems[r].id : r \in {q \in 1..Len(d.problems) :
        /\ GivenStr(search_query) => d.problems[q].name = search_query
        /\ GivenStr(tag) => HasTag(d, q, tag)
        /\ GivenInt(rating) => HasRating(d, q, rating)}}

\* exact_search(db, search_query, tag, rating)
exact_search(search_query, tag, rating) ==
    /\ pc = "idle"
    /\ IF ~(GivenStr(search_query) \/ GivenStr(tag) \/ GivenInt(rating))
       THEN /\ result' = [NoResult EXCEPT !.kind = "raised"]
            /\ last_search' = [called |-> TRUE, search_query |-> search_query,
                               tag |-> tag, rating |-> rating, found |-> {}]
       ELSE /\ result' = [NoResult EXCEPT !.kind = "list"]
            /\ last_search' = [called |-> TRUE, search_query |-> search_query,
                               tag |-> tag, rating |-> rating,
                               found |-> Matches(db, search_query, tag, rating)]
    /\ pc' = "returned" /\ entry' = "exact_search"
    /\ start_db' = db
    /\ UNCHANGED <<db, session, progress, opened>>
    /\ UNCHANGED <<log, last_parse, last_save, no_change, replay>>
    /\ UNCHANGED CallVars /\ UNCHANGED TraceVars

\* the methods class CodeforcesParser defines
ParserMethods == {"__init__", "fetch_problems_list", "parse_problem_condition",
                  "save_problem", "process_problems", "run"}

\* the celery task of tasks.py and celery.py, fired by the beat schedule: a
\* parser is built and asked for a method its class does not define
check_for_new_problems ==
    /\ pc = "idle"
    /\ "check_and_parse_new_problems" \notin ParserMethods
    /\ result' = [NoResult EXCEPT !.kind = "raised"]
    /\ run_end' = [returned |-> "raised", error |-> "AttributeError"]
    /\ pc' = "returned" /\ entry' = "check_for_new_problems"
    /\ UNCHANGED <<db, session, calls, last_api>>
    /\ UNCHANGED CallVars /\ UNCHANGED GhostVars /\ UNCHANGED AuxVars

(***************************************************************************)
(* CodeforcesParser.run and process_problems, step by step.                *)
(***************************************************************************)
\* lines 241-242: the counters and the session of a process_problems call
EnterProcess(problems) ==
    /\ problems_data' = problems
    /\ stats' = ZeroStats
    /\ proc_session' = "active"
    /\ i' = 1
    /\ attempt' = 0
    /\ condition_text' = NoneStr
    /\ log' = <<>>
    /\ progress' = <<>>
    /\ opened' = 1
    /\ pc' = "loop"

\* run(), lines 277-279: the tables are recreated before anything is fetched
RunStart ==
    /\ pc = "idle"
    /\ start_db' = db
    /\ db' = reset_database(db)
    /\ pc' = "fetch_list" /\ entry' = "run"
    /\ replay' = NoReplay
    /\ calls' = [NoCalls EXCEPT !.reset = 1]
    /\ last_api' = NoApi /\ run_end' = NoRunEnd
    /\ UNCHANGED <<session, result, log, last_parse, last_save, no_change>>
    /\ UNCHANGED CallVars
    /\ UNCHANGED AuxVars

\* run() called again right after a run that returned, the upstream answering
\* the second run as it answered the first
RunAgain ==
    /\ pc = "returned" /\ entry = "run" /\ result.kind = "stats" /\ ~replay.on
    /\ replay' = [on |-> TRUE, problems_data |-> problems_data, log |-> log,
                  processed |-> result.stats.processed, rows |-> Len(db.problems)]
    /\ start_db' = db
    /\ db' = reset_database(db)
    /\ pc' = "fetch_list"
    /\ result' = NoResult
    /\ log' = <<>> /\ last_parse' = NoParse /\ last_save' = NoSave
    /\ calls' = [NoCalls EXCEPT !.reset = 1]
    /\ last_api' = NoApi /\ run_end' = NoRunEnd
    /\ UNCHANGED <<session, entry, no_change>>
    /\ UNCHANGED CallVars
    /\ UNCHANGED AuxVars

\* what fetch_problems_list can end in
ListAnswers == {"request_error", "bad_status", "ok"}

\* fetch_problems_list, lines 101-109: the list built from result.problems
fetch_problems_list(catalog) == [k \in 1..Len(catalog) |-> ToProblemData(catalog[k])]

\* FetchListOk without the check of the status field
FetchListOkAnyStatus(answer) == answer \in {"ok", "bad_status"}

\* fetch_problems_list, lines 91-100: the one request went through,
\* raise_for_status passed and the status field is "OK"
FetchListOk(answer) == answer = "ok"

\* fetch_problems_list, lines 96-100 and 111-119: what it raises otherwise
FetchError(answer) == IF answer = "bad_status" THEN "ValueError"
                      ELSE "RequestException"

\* run(), lines 281-288: the catalog is fetched; a failure is raised to the
\* caller, an empty list ends the run, any other list is processed
FetchList(answer, catalog) ==
    /\ pc = "fetch_list"
    /\ replay.on => answer = "ok" /\ fetch_problems_list(catalog) = replay.problems_data
    /\ no_change' = ~ChangesVerdict(start_db, Len(catalog))
    /\ last_api' = ApiRecord(answer, catalog, FALSE)
    /\ IF ~FetchListOk(answer)
       THEN /\ result' = [NoResult EXCEPT !.kind = "raised"]
            /\ run_end' = [returned |-> "raised", error |-> FetchError(answer)]
            /\ calls' = [calls EXCEPT !.fetch = @ + 1]
            /\ pc' = "returned"
            /\ UNCHANGED <<log, start_db, progress, opened>>
            /\ UNCHANGED CallVars
       ELSE IF fetch_problems_list(catalog) = <<>>
       THEN /\ result' = [NoResult EXCEPT !.kind = "None"]
            /\ run_end' = [returned |-> "None", error |-> "none"]
            /\ calls' = [calls EXCEPT !.fetch = @ + 1]
            /\ pc' = "returned"
            /\ start_db' = EmptyDb
            /\ UNCHANGED <<log, progress, opened>>
            /\ UNCHANGED CallVars
       ELSE /\ EnterProcess(fetch_problems_list(catalog))
            /\ calls' = [calls EXCEPT !.fetch = @ + 1, !.process = @ + 1]
            /\ start_db' = EmptyDb
            /\ UNCHANGED <<result, run_end>>
    /\ UNCHANGED <<db, session, entry, last_parse, last_save, replay, last_search>>

\* process_problems(problems_data) called directly
ProcessCall(problems) ==
    /\ pc = "idle"
    /\ Len(db.problems) + Len(problems) <= MaxRows
    /\ EnterProcess(problems)
    /\ entry' = "process_problems"
    /\ UNCHANGED <<db, session, result, last_parse, last_save, start_db, no_change,
                   replay, last_search>>
    /\ UNCHANGED TraceVars

\* the value process_problems hands to its caller: run logs it and returns it
\* to nobody
ReturnStats(st) == [NoResult EXCEPT !.kind = "stats", !.stats = st]

\* what the detail page of an item answered in the end: request errors up to
\* the last attempt, a page without text, a page with text, or a failure that
\* is no request error; "none" when no page was asked for
RespClass(resp) ==
    CASE resp \in {"request_error", "http_error"} -> "errors"
      [] resp \in {"not_found", "no_statement", "empty_text"} -> "no_text"
      [] resp = "text" -> "text"
      [] OTHER -> "crash"

LogEntry(resp_class, fault, outcome) ==
    [resp |-> resp_class, fault |-> fault, outcome |-> outcome]

\* run(), lines 290-295: the statistics are logged and run falls off its end,
\* so its caller gets None; a direct caller of process_problems has its result
RunReturns(e, o) == IF e = "run" THEN [returned |-> "None", error |-> "none"] ELSE o

\* run(), lines 297-299: whatever process_problems raised is raised again
RunRaises(e, o) == IF e = "run" THEN [returned |-> "raised", error |-> "Exception"]
                   ELSE o

\* CloseOnExit with the close after the loop instead of in a finally clause
CloseOnReturnOnly(sess, raised) == IF raised THEN sess ELSE "closed"

\* "finally: session.close()", lines 270-271: the session of the call is
\* closed when the loop ends and when an exception leaves it
CloseOnExit(sess, raised) == "closed"

\* lines 245-248 and 270-273: the next item, or the end of the list
LoopNext ==
    /\ pc = "loop"
    /\ IF i > Len(problems_data)
       THEN /\ proc_session' = CloseOnExit(proc_session, FALSE)
            /\ result' = ReturnStats(stats)
            /\ run_end' = RunReturns(entry, run_end)
            /\ pc' = "returned"
            /\ UNCHANGED <<i, stats, log, attempt>>
       ELSE IF ~({"contest_id", "index"} \subseteq problems_data[i].keys)
       THEN /\ stats' = [stats EXCEPT !.errors = @ + 1]
            /\ log' = Append(log, LogEntry("none", FALSE, "missing_key"))
            /\ i' = i + 1
            /\ UNCHANGED <<proc_session, result, pc, attempt, run_end>>
       ELSE /\ pc' = "parse"
            /\ attempt' = 0
            /\ UNCHANGED <<proc_session, result, i, stats, log, run_end>>
    /\ last_save' = NoSave
    /\ last_parse' = NoParse
    /\ UNCHANGED <<db, session, entry, problems_data, condition_text, start_db,
                   no_change, replay, calls, last_api>>
    /\ UNCHANGED AuxVars

\* the outcome of a save_problem call as the log names it
SaveKind(r) == IF r.err = "none" THEN "stored"
               ELSE IF r.ret THEN "conflict" ELSE "failed"

\* lines 250-257: one attempt of parse_problem_condition and, when the call
\* returns, what process_problems does with the value
ParseStep(resp) ==
    /\ pc = "parse"
    /\ LET r == ParseAttempt(attempt, resp)
       IN  CASE r.kind = "retry" ->
                  /\ attempt' = attempt + 1
                  /\ last_parse' = [called |-> FALSE, resp |-> resp,
                                    attempts |-> attempt + 1, value |-> NoneStr]
                  /\ UNCHANGED <<pc, i, stats, log, condition_text, proc_session,
                                 result, run_end>>
             [] r.kind = "raise" ->
                  /\ replay.on => replay.log[i].resp = RespClass(resp)
                  /\ proc_session' = CloseOnExit(proc_session, TRUE)
                  /\ result' = [NoResult EXCEPT !.kind = "raised"]
                  /\ run_end' = RunRaises(entry, run_end)
                  /\ pc' = "returned"
                  /\ log' = Append(log, LogEntry(RespClass(resp), FALSE, "raised"))
                  /\ UNCHANGED <<attempt, i, stats, condition_text, last_parse>>
             [] r.kind = "return" /\ NoText(r.value) ->
                  /\ replay.on => replay.log[i].resp = RespClass(resp)
                  /\ last_parse' = [called |-> TRUE, resp |-> resp,
                                    attempts |-> attempt + 1, value |-> r.value]
                  /\ stats' = [stats EXCEPT !.skipped = @ + 1]
                  /\ log' = Append(log, LogEntry(RespClass(resp), FALSE, "skipped"))
                  /\ i' = i + 1
                  /\ pc' = "loop"
                  /\ UNCHANGED <<attempt, condition_text, proc_session, result,
                                 run_end>>
             [] OTHER ->
                  /\ replay.on => replay.log[i].resp = RespClass(resp)
                  /\ last_parse' = [called |-> TRUE, resp |-> resp,
                                    attempts |-> attempt + 1, value |-> r.value]
                  /\ condition_text' = r.value
                  /\ pc' = "save"
                  /\ UNCHANGED <<attempt, i, stats, log, proc_session, result,
                                 run_end>>
    /\ UNCHANGED <<db, session, entry, problems_data, last_save, start_db, no_change,
                   replay, calls, last_api>>
    /\ UNCHANGED AuxVars

\* "i % 10", line 262: the period of the progress report
ProgressEvery == 10

\* lines 262-268: the progress is logged when the number of the item is a
\* multiple of the period
ReportProgress(reports, k) ==
    IF k % ProgressEvery = 0 THEN Append(reports, k) ELSE reports

\* lines 259-268: save_problem on the session of the call, then the progress
\* report
SaveStep(fault) ==
    /\ pc = "save"
    /\ LET r == save_problem(problems_data[i], condition_text, proc_session, db, fault,
                             NoRace)
       IN  /\ replay.on => replay.log[i].fault = fault
           /\ db' = r.db
           /\ proc_session' = r.sess
           /\ stats' = IF r.ret THEN [stats EXCEPT !.processed = @ + 1] ELSE stats
           /\ log' = Append(log, LogEntry(RespClass(last_parse.resp), fault,
                                          SaveKind(r)))
           /\ last_save' = SaveRecord(problems_data[i], condition_text, fault, r, db,
                                      \E k \in 1..Len(log) : log[k].outcome = "failed",
                                      NoRace)
    /\ progress' = ReportProgress(progress, i)
    /\ i' = i + 1
    /\ pc' = "loop"
    /\ UNCHANGED <<session, entry, problems_data, attempt, condition_text, result,
                   last_parse, start_db, no_change, replay, last_search, opened>>
    /\ UNCHANGED TraceVars

\* the caller has its answer
Return ==
    /\ pc = "returned"
    /\ pc' = "idle" /\ entry' = "none"
    /\ problems_data' = <<>> /\ i' = 0 /\ attempt' = 0 /\ condition_text' = NoneStr
    /\ stats' = ZeroStats /\ proc_session' = "closed"
    /\ result' = NoResult /\ log' = <<>>
    /\ last_parse' = NoParse /\ last_save' = NoSave
    /\ start_db' = EmptyDb /\ no_change' = FALSE /\ replay' = NoReplay
    /\ calls' = NoCalls /\ last_api' = NoApi /\ run_end' = NoRunEnd
    /\ last_search' = NoSearch /\ progress' = <<>> /\ opened' = 0
    /\ UNCHANGED <<db, session>>

Next ==
    \/ \E problem_data \in CallerData, text \in Texts, fault \in BOOLEAN :
          SaveCall(problem_data, text, fault, NoRace)
    \/ ResetCall
    \/ \E answer \in ApiAnswers, catalog \in Catalogs, fault \in BOOLEAN :
          smart_repars_check(answer, catalog, fault)
    \/ \E answer \in ApiAnswers, catalog \in Catalogs, fault \in BOOLEAN :
          check_changes(answer, catalog, fault)
    \/ \E search_query \in SearchNames, tag \in SearchTags, rating \in SearchRatings :
          exact_search(search_query, tag, rating)
    \/ check_for_new_problems
    \/ RunStart
    \/ RunAgain
    \/ \E answer \in ListAnswers, catalog \in Catalogs : FetchList(answer, catalog)
    \/ \E problems \in SeqsUpTo(CallerData, MaxCatalog) : ProcessCall(problems)
    \/ LoopNext
    \/ \E resp \in Responses : ParseStep(resp)
    \/ \E fault \in BOOLEAN : SaveStep(fault)
    \/ Return

Spec == Init /\ [][Next]_vars

(***************************************************************************)
(* save_problem called while another session works on the same store.      *)
(***************************************************************************)
ConcurrentNext ==
    \/ \E problem_data \in CallerData, text \in Texts, fault \in BOOLEAN,
          race \in Races :
          SaveCall(problem_data, text, fault, race)
    \/ ResetCall
    \/ Return

ConcurrentSpec == Init /\ [][ConcurrentNext]_vars

(***************************************************************************)
(* One process_problems call on a list long enough for a progress report.  *)
(***************************************************************************)
\* the item the long lists repeat
ProgressItem ==
    ToProblemData(CHOOSE r \in RawProblems : r.contestId = 1 /\ r.index = "A")

\* lists of ProgressEvery or one more items, all the same item but, in some,
\* an item without its keys in the place of the report
ProgressLists ==
    {[k \in 1..n |-> IF k = ProgressEvery THEN last ELSE ProgressItem] :
        n \in {ProgressEvery, ProgressEvery + 1},
        last \in {ProgressItem, NoKeyData}}

\* process_problems(problems_data) called directly with a long list
ProcessBatch(problems) ==
    /\ pc = "idle"
    /\ EnterProcess(problems)
    /\ entry' = "process_problems"
    /\ UNCHANGED <<db, session, result, last_parse, last_save, start_db, no_change,
                   replay, last_search>>
    /\ UNCHANGED TraceVars

ProgressNext ==
    \/ \E problems \in ProgressLists : ProcessBatch(problems)
    \/ LoopNext
    \/ \E resp \in {"text", "not_found"} : ParseStep(resp)
    \/ SaveStep(FALSE)

ProgressSpec == Init /\ [][ProgressNext]_vars

(***************************************************************************)
(* Properties.                                                             *)
(***************************************************************************)
KeyOf(row) == <<row.contest_id, row.index>>

\* a row of rows carries the natural key of problem_data
KeyStored(rows, problem_data) ==
    \E k \in 1..Len(rows) :
        KeyOf(rows[k]) = <<problem_data.contest_id, problem_data.index>>

\* an item the store has no reason to refuse: every key of the dict present,
\* a contest id, no tag name twice
ValidData(problem_data) ==
    /\ AllKeys \subseteq problem_data.keys
    /\ problem_data.contest_id # NoneInt
    /\ \A a, b \in 1..Len(problem_data.tags) :
          a # b /\ problem_data.tags[a] # "" => problem_data.tags[a] # problem_data.tags[b]

InProcess == entry \in {"run", "process_problems"}

\* C1: in every reachable state there is at most one Problem row for each
\* (contest_id, index) pair.
C1_UniqueNaturalKey ==
    \A a, b \in 1..Len(db.problems) :
        a # b => KeyOf(db.problems[a]) # KeyOf(db.problems[b])

\* C2: a save_problem call for a natural key that is already stored (the store
\* answering normally) returns True, adds no Problem row and leaves the stored
\* rows as they were.
C2_StoredKeySaveIsNoOp ==
    (/\ last_save.called
     /\ ~last_save.fault
     /\ KeyStored(last_save.rows_before, last_save.problem_data))
    => (last_save.ret /\ db.problems = last_save.rows_before)

\* C3: there is at most one Tag row per name and at most one Difficulty row per
\* value, and save_problem never issues an INSERT for a name or a value that a
\* row of its session already carries: it looks the row up and uses it.
C3_TagsAndDifficultiesUnique ==
    /\ \A a, b \in 1..Len(db.tags) : a # b => db.tags[a].name # db.tags[b].name
    /\ \A a, b \in 1..Len(db.difficulties) :
          a # b => db.difficulties[a].value # db.difficulties[b].value
    /\ last_save.called => ~last_save.dup_insert

\* C3 witness: a save stored a Problem linked to a Tag and a Difficulty that an
\* older Problem row already used.
C3_Witness ==
    /\ last_save.called /\ last_save.err = "none"
    /\ \E link \in db.problem_tags :
          /\ link[1] <= Len(last_save.rows_before)
          /\ <<Len(db.problems), link[2]>> \in db.problem_tags
    /\ \E k \in 1..Len(last_save.rows_before) :
          /\ db.problems[k].rating_id # NoneInt
          /\ db.problems[k].rating_id = db.problems[Len(db.problems)].rating_id

\* the second of two runs in a row has ended
SecondRunEnded == replay.on /\ pc = "returned"

C5_NoChangeShortCircuit ==
    (entry = "run" /\ no_change)
    => (pc \notin {"parse", "save"} /\ log = <<>> /\ db.problems = <<>>)

\* C6: when the catalog fetch of a run fails, the failure reaches the caller
\* and the store is what it was before the run started.
C6_FailedFetchKeepsStore ==
    (entry = "run" /\ pc = "returned" /\ result.kind = "raised" /\ log = <<>>)
    => db = start_db

\* every item of the list has been handled, item k met request errors in all
\* its attempts, and every other item had its text fetched and was stored
OnlyItemExhausted(k) ==
    /\ Len(log) = Len(problems_data)
    /\ log[k].resp = "errors"
    /\ \A j \in 1..Len(log) : j # k => log[j].resp = "text" /\ log[j].outcome = "stored"

\* the row save_problem stores for an item
StoredItem(problem_data) ==
    \E k \in 1..Len(db.problems) :
        /\ KeyOf(db.problems[k]) = <<problem_data.contest_id, problem_data.index>>
        /\ db.problems[k].name = problem_data.name
        /\ db.problems[k].condition_text = StatementText

\* C7: an item whose detail fetch exhausts its retries is skipped and raises
\* nothing; when it is the only such item of a list of N and the others
\* succeed, process_problems ends with skipped >= 1 and processed = N - 1, and
\* the items after it are stored.
C7_ExhaustedItemIsIsolated ==
    InProcess =>
        \A k \in 1..Len(log) :
            /\ log[k].resp = "errors" => log[k].outcome = "skipped"
            /\ OnlyItemExhausted(k) =>
                  /\ result.kind # "raised"
                  /\ stats.skipped >= 1
                  /\ stats.processed = Len(problems_data) - 1
                  /\ pc = "returned" => result.kind = "stats" /\ result.stats = stats
                  /\ \A j \in (k + 1)..Len(problems_data) : StoredItem(problems_data[j])

\* C7 witness: a list of at least two items has been processed to its end, the
\* first item exhausted its retries and the later ones were stored.
C7_Witness ==
    /\ InProcess /\ pc = "returned" /\ result.kind = "stats"
    /\ Len(problems_data) >= 2
    /\ OnlyItemExhausted(1)

\* C8: when process_problems returns, processed + skipped + errors is the
\* number of items given.
C8_EveryItemCounted ==
    (InProcess /\ pc = "returned" /\ result.kind = "stats")
    => result.stats.processed + result.stats.skipped + result.stats.errors
          = Len(problems_data)

\* the last Problem row is the one a save of problem_data with text inserts
LastRowIs(problem_data, text) ==
    /\ Len(db.problems) >= 1
    /\ KeyOf(db.problems[Len(db.problems)])
          = <<problem_data.contest_id, problem_data.index>>
    /\ db.problems[Len(db.problems)].condition_text = text

\* C9: a save_problem call that fails leaves the loop running, and a later
\* save_problem call on the same session for a valid item, the store answering
\* normally, commits the item.
C9_SessionUsableAfterFailure ==
    (InProcess /\ last_save.called)
    => /\ pc = "loop" /\ proc_session = "active"
       /\ (ValidData(last_save.problem_data) /\ ~last_save.fault)
          => /\ last_save.ret
             /\ db.problems # last_save.rows_before
             /\ LastRowIs(last_save.problem_data, last_save.condition_text)

\* C9 witness: in one process_problems call a save failed and a later save
\* committed its item.
C9_Witness ==
    /\ InProcess /\ last_save.called /\ last_save.after_failure
    /\ ~last_save.fault /\ last_save.err = "none"
    /\ LastRowIs(last_save.problem_data, last_save.condition_text)

\* C10: parse_problem_condition makes at most 3 attempts, and when the last of
\* them fails with a request error it returns None and raises nothing.
C10_AtMostThreeAttempts ==
    /\ attempt < MaxAttempts
    /\ last_parse.called =>
          /\ last_parse.attempts <= MaxAttempts
          /\ last_parse.resp \in {"request_error", "http_error"}
             => last_parse.attempts = MaxAttempts /\ last_parse.value = NoneStr
    /\ \A k \in 1..Len(log) : log[k].resp = "errors" => log[k].outcome # "raised"

\* C10 witness: a call returned None after three attempts that all failed with
\* a request error.
C10_Witness ==
    /\ last_parse.called /\ last_parse.attempts = MaxAttempts
    /\ last_parse.resp = "request_error" /\ last_parse.value = NoneStr

\* C11: a 404 makes parse_problem_condition return None in the attempt that
\* got it: no attempt follows the 404, nothing is raised, and the item is
\* skipped.
C11_NotFoundReturnsNoneAtOnce ==
    last_parse.resp = "not_found"
    => /\ last_parse.called /\ last_parse.value = NoneStr
       /\ pc = "loop" /\ result.kind # "raised"
       /\ log # <<>> /\ log[Len(log)].outcome = "skipped"

\* C11 witness: a call returned None on a 404 that its second attempt got.
C11_Witness ==
    /\ last_parse.called /\ last_parse.resp = "not_found"
    /\ last_parse.attempts = 2 /\ last_parse.value = NoneStr

\* C12: a run call that has ended either returned the statistics to its caller
\* or raised; it never returned without statistics.
C12_RunReturnsStatsOrRaises ==
    (entry = "run" /\ pc = "returned") => run_end.returned \in {"stats", "raised"}

\* C13: a run that stored its last item has appended exactly one row to
\* parsing_states, and a run that ended on a failed catalog fetch none.
C13_SyncStateRecorded ==
    (entry = "run" /\ pc = "returned")
    => /\ (/\ result.kind = "stats"
           /\ log # <<>> /\ log[Len(log)].outcome = "stored")
          => Len(db.parsing_states) = 1
       /\ (result.kind = "raised" /\ last_api.answer # "ok")
          => Len(db.parsing_states) = 0

\* the items of problems carry a contest id and pairwise distinct natural keys
DistinctKeys(problems) ==
    /\ \A k \in 1..Len(problems) : problems[k].contest_id # NoneInt
    /\ \A a, b \in 1..Len(problems) :
          a # b => <<problems[a].contest_id, problems[a].index>>
                      # <<problems[b].contest_id, problems[b].index>>

\* the non-empty tag names and the ratings of the items of problems
TagNames(problems) ==
    UNION {{problems[k].tags[t] : t \in 1..Len(problems[k].tags)} :
              k \in 1..Len(problems)} \ {""}
Ratings(problems) == {problems[k].rating : k \in 1..Len(problems)} \ {NoneInt}

\* C14: a run (the store is empty once reset) over N items with distinct
\* natural keys, every detail page giving text and the store answering
\* normally, ends with processed = N and errors = 0, N Problem rows, one Tag row
\* per distinct non-empty tag name, one Difficulty row per distinct rating, and
\* the items without a rating stored without a difficulty.
C14_AllItemsStored ==
    (/\ entry = "run" /\ pc = "returned" /\ result.kind = "stats"
     /\ DistinctKeys(problems_data)
     /\ \A k \in 1..Len(log) : log[k].resp = "text" /\ ~log[k].fault)
    => /\ result.stats.processed = Len(problems_data)
       /\ result.stats.errors = 0
       /\ Len(db.problems) = Len(problems_data)
       /\ {db.tags[t].name : t \in 1..Len(db.tags)} = TagNames(problems_data)
       /\ Len(db.tags) = Cardinality(TagNames(problems_data))
       /\ {db.difficulties[t].value : t \in 1..Len(db.difficulties)}
             = Ratings(problems_data)
       /\ Len(db.difficulties) = Cardinality(Ratings(problems_data))
       /\ \A k \in 1..Len(problems_data) :
             problems_data[k].rating = NoneInt
             => \E r \in 1..Len(db.problems) :
                   /\ KeyOf(db.problems[r])
                         = <<problems_data[k].contest_id, problems_data[k].index>>
                   /\ db.problems[r].rating_id = NoneInt

\* the items of the log whose detail fetch gave no text
NoTextItems == {k \in 1..Len(log) : log[k].resp \in {"no_text", "errors"}}

\* C15: an item whose detail fetch yields no text (404, no statement, empty
\* text, retries exhausted) is skipped: skipped grows by one for it, processed
\* counts the saved items alone, save_problem is not called for it, every
\* Problem row of a run belongs to an item that was stored, and a call in which
\* nothing else fails returns its statistics.
C15_NoTextItemIsSkipped ==
    (InProcess /\ pc # "fetch_list") =>
        /\ \A k \in NoTextItems : log[k].outcome = "skipped"
        /\ stats.skipped = Cardinality(NoTextItems)
        /\ stats.processed
              = Cardinality({k \in 1..Len(log) :
                                log[k].outcome \in {"stored", "conflict"}})
        /\ (last_parse.called /\ last_parse.value \in {NoneStr, ""})
              => pc = "loop" /\ ~last_save.called
        /\ entry = "run" =>
              /\ Len(db.problems)
                    = Cardinality({k \in 1..Len(log) : log[k].outcome = "stored"})
              /\ \A r \in 1..Len(db.problems) :
                    \E k \in 1..Len(log) :
                        /\ log[k].outcome = "stored"
                        /\ log[k].resp = "text"
                        /\ KeyOf(db.problems[r])
                              = <<problems_data[k].contest_id, problems_data[k].index>>
        /\ (/\ pc = "returned" /\ NoTextItems # {}
            /\ \A k \in 1..Len(log) : log[k].resp # "crash")
              => result.kind = "stats"

\* C15 witness: a run over two items ended with its statistics, the page of the
\* first item had no text and the second item was stored.
C15_Witness ==
    /\ entry = "run" /\ pc = "returned" /\ result.kind = "stats"
    /\ Len(log) = 2 /\ log[1].resp = "no_text" /\ log[2].outcome = "stored"
    /\ result.stats.skipped = 1 /\ Len(db.problems) = 1

\* C16: a run call whose catalog fetch succeeded has made exactly one reset,
\* one catalog fetch and one process_problems call when it ends, the empty
\* catalog included.
C16_RunCallsEachStepOnce ==
    (entry = "run" /\ pc = "returned" /\ last_api.answer = "ok")
    => calls = [reset |-> 1, fetch |-> 1, process |-> 1]

\* the last Problem row of the store carries no count: there is no row, or
\* its total_solved is NULL
NoPriorCount ==
    IF db.problems = <<>> THEN TRUE
    ELSE db.problems[Len(db.problems)].total_solved = NoneInt

\* the last Problem row of the store carries the count n
PriorCountIs(n) ==
    IF db.problems = <<>> THEN FALSE
    ELSE db.problems[Len(db.problems)].total_solved = n

C19_TriggerFetchesCatalog ==
    entry \in {"run", "check_for_new_problems"}
    => pc = "fetch_list" \/ calls.fetch >= 1

LastRowTagged(name) ==
    \E t \in 1..Len(db.tags) :
        /\ db.tags[t].name = name
        /\ <<Len(db.problems), db.tags[t].id>> \in db.problem_tags

\* the last Problem row refers to the Difficulty of value
LastRowRated(value) ==
    \E t \in 1..Len(db.difficulties) :
        /\ db.difficulties[t].value = value
        /\ db.problems[Len(db.problems)].rating_id = db.difficulties[t].id

\* C21: when another session commits the Tag (or Difficulty) of a name (value)
\* between the lookup and the insert of a save_problem call for a valid item,
\* the call returns True and the Problem is stored, linked to the row the
\* other session committed.
C21_ConcurrentInsertRecovered ==
    (/\ last_save.called /\ last_save.race # NoRace
     /\ ValidData(last_save.problem_data))
    => /\ last_save.ret
       /\ LastRowIs(last_save.problem_data, last_save.condition_text)
       /\ last_save.race.kind = "tag" => LastRowTagged(last_save.race.name)
       /\ last_save.race.kind = "difficulty" => LastRowRated(last_save.race.value)

\* every link of the store joins a Problem row and a Tag row of the store, and
\* every rating_id is the id of a Difficulty row of the store
LinksResolve ==
    /\ \A link \in db.problem_tags :
          /\ \E r \in 1..Len(db.problems) : db.problems[r].id = link[1]
          /\ \E t \in 1..Len(db.tags) : db.tags[t].id = link[2]
    /\ \A r \in 1..Len(db.problems) :
          db.problems[r].rating_id # NoneInt
          => \E t \in 1..Len(db.difficulties) :
                db.difficulties[t].id = db.problems[r].rating_id

\* C22: in every committed state each problem_tags row joins a committed
\* Problem row and a committed Tag row; after a save_problem call that failed
\* the store holds none of the rows the call flushed: it is the store from
\* before the call, but for the one row another session committed meanwhile;
\* and a save that went through has stored the item with all its tags.
C22_SaveIsAtomic ==
    /\ LinksResolve
    /\ (last_save.called /\ last_save.err # "none")
       => /\ db.problems = last_save.store_before.problems
          /\ db.problem_tags = last_save.store_before.problem_tags
          /\ last_save.race.kind # "tag" => db.tags = last_save.store_before.tags
          /\ last_save.race.kind # "difficulty"
                => db.difficulties = last_save.store_before.difficulties
          /\ Len(db.tags) <= Len(last_save.store_before.tags) + 1
          /\ Len(db.difficulties) <= Len(last_save.store_before.difficulties) + 1
    /\ (last_save.called /\ last_save.err = "none")
       => /\ LastRowIs(last_save.problem_data, last_save.condition_text)
          /\ \A k \in 1..Len(last_save.problem_data.tags) :
                last_save.problem_data.tags[k] # ""
                => LastRowTagged(last_save.problem_data.tags[k])

\* C22 witness: a save_problem call flushed a Tag the store did not hold, then
\* failed, and the store is the one from before the call.
C22_Witness ==
    /\ last_save.called /\ last_save.err = "unique" /\ last_save.race = NoRace
    /\ \E k \in 1..Len(last_save.problem_data.tags) :
          /\ last_save.problem_data.tags[k] # ""
          /\ QueryTag(last_save.store_before, last_save.problem_data.tags[k]) = NoneInt
    /\ db = last_save.store_before

\* the Problem, Tag and Difficulty tables of the store exist and hold no row
TablesEmpty ==
    /\ {"problems", "tags", "difficulties", "problem_tags"} \subseteq DOMAIN db
    /\ db.problems = <<>> /\ db.tags = <<>> /\ db.difficulties = <<>>
    /\ db.problem_tags = {}

\* C24: after reset_database, called directly or as the first step of run, the
\* Problem, Tag and Difficulty tables exist and are empty, whatever the store
\* held before.
C24_ResetEmptiesTables ==
    /\ (entry = "reset_database" /\ pc = "returned") => TablesEmpty
    /\ (entry = "run" /\ pc = "fetch_list") => TablesEmpty

\* C24 witness: reset_database returned on a store that held Problem, Tag and
\* Difficulty rows, and the tables are empty.
C24_Witness ==
    /\ entry = "reset_database" /\ pc = "returned"
    /\ start_db.problems # <<>> /\ start_db.tags # <<>>
    /\ start_db.difficulties # <<>>
    /\ TablesEmpty

\* the criteria of the last exact_search call that are supplied: a name or a
\* tag that is a non-empty string, a rating that is a non-zero number
NameSupplied == last_search.search_query \notin {NoneStr, ""}
TagSupplied == last_search.tag \notin {NoneStr, ""}
RatingSupplied == last_search.rating \notin {NoneInt, 0}

\* Problem row r satisfies every supplied criterion of the last search
Satisfies(r) ==
    /\ NameSupplied => db.problems[r].name = last_search.search_query
    /\ TagSupplied =>
          \E t \in 1..Len(db.tags) :
              /\ db.tags[t].name = last_search.tag
              /\ <<db.problems[r].id, db.tags[t].id>> \in db.problem_tags
    /\ RatingSupplied =>
          /\ db.problems[r].rating_id # NoneInt
          /\ \E t \in 1..Len(db.difficulties) :
                /\ db.difficulties[t].id = db.problems[r].rating_id
                /\ db.difficulties[t].value = last_search.rating

C23_RunFollowsStateMachine ==
    entry = "run"
    => /\ pc \in {"fetch_list", "loop", "parse", "save", "returned"}
       /\ pc = "fetch_list" => calls.fetch = 0 /\ log = <<>>
       /\ pc \in {"loop", "parse", "save"} => calls.fetch = 1
       /\ result.kind = "raised" => pc = "returned"
       /\ (pc = "returned" /\ result.kind # "raised")
          => \/ no_change /\ log = <<>>
             \/ Len(db.parsing_states) >= 1

\* the loop of process_problems is at work on an item
InLoop == InProcess /\ pc \in {"loop", "parse", "save"}

\* C26: process_problems handles the items one at a time in the order of the
\* list: while item i is fetched or saved, items 1..i-1 and no others have
\* their outcome; save_problem is entered only with the text the detail fetch
\* of the same item returned, and only items whose fetch gave a text have the
\* outcome of a save.
C26_OneItemAtATimeInOrder ==
    /\ InLoop => Len(log) = i - 1
    /\ (InLoop /\ pc \in {"parse", "save"}) => i <= Len(problems_data)
    /\ (InLoop /\ pc = "parse") => ~last_parse.called /\ ~last_save.called
    /\ (InLoop /\ pc = "save")
       => /\ last_parse.called /\ ~last_save.called
          /\ last_parse.value \notin {NoneStr, ""}
          /\ condition_text = last_parse.value
    /\ (InLoop /\ last_save.called)
       => /\ last_save.problem_data = problems_data[i - 1]
          /\ last_save.condition_text \notin {NoneStr, ""}
    /\ InProcess
       => \A k \in 1..Len(log) :
              log[k].outcome \in {"stored", "conflict", "failed"}
              => log[k].resp = "text"

\* C26 witness: the second item of a list is about to be saved with the text
\* of its own page, after the first one was skipped.
C26_Witness ==
    /\ InLoop /\ pc = "save" /\ i = 2
    /\ log[1].outcome = "skipped"
    /\ last_parse.called /\ condition_text = last_parse.value

\* C28: whenever save_problem has returned True, the store holds a Problem
\* row with the contest id and the index of the item.
C28_TrueMeansStored ==
    (last_save.called /\ last_save.ret)
    => KeyStored(db.problems, last_save.problem_data)

\* the count of the last row smart_repars_check stored; NoneInt without one
RECURSIVE RecordedCount(_)
RecordedCount(rows) ==
    IF rows = <<>> THEN NoneInt
    ELSE IF rows[Len(rows)].problem_type = "COUNT"
         THEN rows[Len(rows)].total_solved
         ELSE RecordedCount(SubSeq(rows, 1, Len(rows) - 1))

\* C29: when the last recorded count equals the length of the catalog,
\* check_changes returns False, whatever rows were saved after the count.
C29_StoredItemsKeepDetection ==
    (/\ entry = "check_changes" /\ pc = "returned"
     /\ last_api.answer = "ok" /\ ~last_api.fault
     /\ RecordedCount(db.problems) # NoneInt
     /\ RecordedCount(db.problems) = last_api.count)
    => result.kind = "bool" /\ ~result.changed

\* the numbers of the items up to n that call for a progress report
ReportsDue(n) == [k \in 1..(n \div ProgressEvery) |-> k * ProgressEvery]

\* C27: between two items of process_problems, the progress reports emitted
\* so far are those of the items 10, 20, ... handled so far, one each,
\* whatever the outcome of these items.
C27_ReportEveryTenthItem ==
    (InLoop /\ pc = "loop") => progress = ReportsDue(i - 1)

\* C30: process_problems opens one session per call, and when the call has
\* ended, with statistics or with an exception out of the loop, the session
\* is closed.
C30_OneSessionClosedOnExit ==
    /\ InLoop => opened = 1 /\ proc_session \in {"active", "closed"}
    /\ (InProcess /\ pc = "returned" /\ result.kind \in {"stats", "raised"}
        /\ opened > 0)
       => opened = 1 /\ proc_session = "closed"

\* C30 witness: an exception left the loop after one item was saved, and the
\* session of the call is closed.
C30_Witness ==
    /\ InProcess /\ pc = "returned" /\ result.kind = "raised"
    /\ opened = 1 /\ Len(log) = 2 /\ log[1].outcome = "stored"
    /\ proc_session = "closed"

====
